---- MODULE Spec2Model ----
(***************************************************************************)
(* cargo-semver-checks: the release-checking pipeline of src/lib.rs        *)
(* (Scope::selected_packages, the Check builder, Check::check_release and  *)
(* Report) and the command-line front end of src/main.rs (the CheckRelease *)
(* arguments and their conversion into a Check).                           *)
(*                                                                         *)
(* Calls that leave the two source files (cargo metadata, the baseline     *)
(* loaders, the rustdoc dump, the rustdoc parser, the query engine, the    *)
(* status shell) are environment steps: each either succeeds or fails, and *)
(* the `?` after it in the code decides what the program does with that.   *)
(***************************************************************************)
EXTENDS Naturals, Sequences, FiniteSets

VARIABLES
    scope,          \* Check.scope: [selection, excluded_packages]
    current,        \* Check.current
    baseline,       \* Check.baseline
    args,           \* the parsed CheckRelease arguments, while they exist
    pc,             \* position of the caller / of check_release
    metadata,       \* cargo_metadata::Metadata once loaded (a set: empty = not loaded)
    selected,       \* packages of the `for selected in selected` loop still to come
    rustdoc_paths,  \* crate names of the (name, baseline_path, current_path) triples
    success,        \* the local `success` of check_release
    result,         \* what check_release returned: nothing yet, Ok(Report) or Err
    log,            \* history of the environment steps performed, in order
    reselected      \* history: a with_baseline_* call replaced an earlier one's variant

vars == <<scope, current, baseline, args, pc, metadata, selected, rustdoc_paths,
          success, result, log, reselected>>

(***************************************************************************)
(* Bounds.                                                                 *)
(***************************************************************************)
\* packages in a package graph handed to selected_packages alone
MaxPkgs == 3
\* packages in a package graph loaded by a run of check_release
MaxRunPkgs == 2

\* crate names; a graph may hold the same name twice (a member and a dependency)
Names == {"a", "b", "c"}
\* crate names of the graphs loaded by a run: package k is named NamePool[k]
NamePool == <<"a", "b", "c", "d", "e", "f">>

(***************************************************************************)
(* Data: cargo_metadata::Package and cargo_metadata::Metadata, as far as   *)
(* the two source files read them.  A package id is its position in        *)
(* meta.packages; publish_empty is `publish == Some(vec![])`;              *)
(* resolve_root is resolve.root as a set: {} for None, {id} for Some(id).  *)
(***************************************************************************)
PackageSeqs(n, nameFns, pubs) ==
    { [k \in 1..n |-> [id |-> k, name |-> nm[k], publish_empty |-> pb[k]]] :
        nm \in nameFns, pb \in [1..n -> pubs] }

MetadataOver(n, nameFns, pubs) ==
    UNION { { [packages |-> ps, workspace_members |-> wm, resolve_root |-> r] :
                ps \in PackageSeqs(n, nameFns, pubs),
                r \in {{}} \cup {{m} : m \in wm} } :
            wm \in SUBSET (1..n) }

\* graphs for selected_packages alone: any names, publish flag not varied
ScopeMetadata ==
    UNION { MetadataOver(n, [1..n -> Names], {FALSE}) : n \in 0..MaxPkgs }

\* graphs a run loads: distinct names, either publish flag
RunMetadata ==
    UNION { MetadataOver(n, {[k \in 1..n |-> NamePool[k]]}, BOOLEAN) : n \in 0..MaxRunPkgs }

PackagesOf(meta) == { meta.packages[k] : k \in DOMAIN meta.packages }

(***************************************************************************)
(* ScopeSelection and Scope.  The two Vec<String> are only ever asked      *)
(* `contains`, so each is held as the set of its elements.                 *)
(***************************************************************************)
SelPackages(patterns) == [kind |-> "Packages", patterns |-> patterns]
SelWorkspace == [kind |-> "Workspace", patterns |-> {}]
SelDefaultMembers == [kind |-> "DefaultMembers", patterns |-> {}]

SelectionsOver(nameSets) ==
    {SelWorkspace, SelDefaultMembers} \cup { SelPackages(ps) : ps \in nameSets }

ScopeDefault == [selection |-> SelDefaultMembers, excluded_packages |-> {}]

(***************************************************************************)
(* Scope::selected_packages.                                               *)
(***************************************************************************)
\* base_ids matching the requested names against every package of the graph
base_ids_NoMemberCheck(sc, meta) ==
    IF sc.selection.kind = "DefaultMembers"
    THEN IF meta.resolve_root # {} THEN meta.resolve_root ELSE meta.workspace_members
    ELSE IF sc.selection.kind = "Workspace"
    THEN meta.workspace_members
    ELSE { p.id : p \in { q \in PackagesOf(meta) : q.name \in sc.selection.patterns } }

\* base_ids taking all workspace members also when the resolution has a root
base_ids_IgnoreRoot(sc, meta) ==
    IF sc.selection.kind \in {"DefaultMembers", "Workspace"}
    THEN meta.workspace_members
    ELSE { p.id : p \in { q \in PackagesOf(meta) :
                            /\ q.id \in meta.workspace_members
                            /\ q.name \in sc.selection.patterns } }

\* the set base_ids.  check_release passes the metadata of manifest_metadata(),
\* loaded with dependencies, so meta.resolve is always Some and the `expect`
\* cannot fail.
base_ids(sc, meta) ==
    IF sc.selection.kind = "DefaultMembers"
    THEN IF meta.resolve_root # {} THEN meta.resolve_root ELSE meta.workspace_members
    ELSE IF sc.selection.kind = "Workspace"
    THEN meta.workspace_members
    ELSE { p.id : p \in { q \in PackagesOf(meta) :
                            /\ q.id \in meta.workspace_members
                            /\ q.name \in sc.selection.patterns } }

\* selected_packages letting an explicit request override the exclusion list
selected_packages_KeepRequested(sc, meta) ==
    LET keep(p) == /\ p.id \in base_ids(sc, meta)
                   /\ \/ p.name \notin sc.excluded_packages
                      \/ p.name \in sc.selection.patterns
    IN  SelectSeq(meta.packages, keep)

\* the final filter over meta.packages, in the order of meta.packages
selected_packages(sc, meta) ==
    LET keep(p) == /\ p.id \in base_ids(sc, meta)
                   /\ p.name \notin sc.excluded_packages
    IN  SelectSeq(meta.packages, keep)

(***************************************************************************)
(* Values of the remaining state.                                          *)
(***************************************************************************)
NoResult == [kind |-> "none", success |-> FALSE, error |-> ""]
OkReport(s) == [kind |-> "Ok", success |-> s, error |-> ""]
Err(e) == [kind |-> "Err", success |-> FALSE, error |-> e]

Event(ev, pkg, res) == [ev |-> ev, pkg |-> pkg, res |-> res]

(***************************************************************************)
(* selected_packages on its own: the inputs are drawn in ScopeInit and     *)
(* the function is applied once.                                           *)
(***************************************************************************)
ScopeInit ==
    /\ scope \in { [selection |-> s, excluded_packages |-> x] :
                     s \in SelectionsOver(SUBSET Names), x \in SUBSET Names }
    /\ metadata \in { {m} : m \in ScopeMetadata }
    /\ current = "CurrentDir"
    /\ baseline = [kind |-> "LatestVersion", valid |-> TRUE]
    /\ args = {}
    /\ pc = "scope_call"
    /\ selected = <<>>
    /\ rustdoc_paths = <<>>
    /\ success = TRUE
    /\ result = NoResult
    /\ log = <<>>
    /\ reselected = FALSE

CallSelectedPackages ==
    /\ pc = "scope_call"
    /\ \E meta \in metadata : selected' = selected_packages(scope, meta)
    /\ pc' = "scope_return"
    /\ UNCHANGED <<scope, current, baseline, args, metadata, rustdoc_paths,
                   success, result, log, reselected>>

ScopeNext == CallSelectedPackages

SpecScope == ScopeInit /\ [][ScopeNext]_vars

(***************************************************************************)
(* The Check builder (Check::new and the with_* setters).  log_level is    *)
(* only handed on to GlobalConfig and is left out.                         *)
(***************************************************************************)
\* names a caller of a run asks for or excludes
RunNames == {NamePool[1], NamePool[2]}

Baseline(kind) == [kind |-> kind, valid |-> TRUE]
\* Baseline::Version(s): valid says whether s parses as a semver::Version
BaselineVersion(valid) == [kind |-> "Version", valid |-> valid]

Building == pc \in {"new", "builder"}
Configured == pc \in {"new", "builder", "cli"}

Init ==
    /\ scope = ScopeDefault
    /\ current = "CurrentDir"
    /\ baseline = Baseline("LatestVersion")
    /\ args = {}
    /\ pc = "new"
    /\ metadata = {}
    /\ selected = <<>>
    /\ rustdoc_paths = <<>>
    /\ success = TRUE
    /\ result = NoResult
    /\ log = <<>>
    /\ reselected = FALSE

RunState == <<metadata, selected, rustdoc_paths, success, result, log>>

with_manifest ==
    /\ Building
    /\ current' = "Manifest"
    /\ pc' = "builder"
    /\ UNCHANGED <<scope, baseline, args, reselected, RunState>>

with_workspace ==
    /\ Building
    /\ scope' = [scope EXCEPT !.selection = SelWorkspace]
    /\ pc' = "builder"
    /\ UNCHANGED <<current, baseline, args, reselected, RunState>>

with_packages ==
    /\ Building
    /\ \E packages \in SUBSET RunNames :
          scope' = [scope EXCEPT !.selection = SelPackages(packages)]
    /\ pc' = "builder"
    /\ UNCHANGED <<current, baseline, args, reselected, RunState>>

with_excluded_packages ==
    /\ Building
    /\ \E excluded \in SUBSET RunNames :
          scope' = [scope EXCEPT !.excluded_packages = excluded]
    /\ pc' = "builder"
    /\ UNCHANGED <<current, baseline, args, reselected, RunState>>

with_current_rustdoc ==
    /\ Building
    /\ current' = "RustDoc"
    /\ pc' = "builder"
    /\ UNCHANGED <<scope, baseline, args, reselected, RunState>>

\* the four baseline setters assign self.baseline and return self
SetBaseline(b) ==
    /\ Building
    /\ baseline' = b
    /\ reselected' = (reselected \/ (baseline.kind \notin {"LatestVersion", b.kind}))
    /\ pc' = "builder"
    /\ UNCHANGED <<scope, current, args, RunState>>

with_baseline_version == \E valid \in BOOLEAN : SetBaseline(BaselineVersion(valid))

with_baseline_revision == SetBaseline(Baseline("Revision"))

with_baseline_root == SetBaseline(Baseline("Root"))

with_baseline_rustdoc == SetBaseline(Baseline("RustDoc"))


(***************************************************************************)
(* The command line: the CheckRelease arguments as clap parses them, and   *)
(* From<CheckRelease> for Check.  args.baseline holds the baseline options *)
(* given; all four carry `group = "baseline"`, a group that admits one     *)
(* member, and current_rustdoc carries `requires = "baseline_rustdoc"`.    *)
(* From is written against Rustdoc::from_* constructors; each is mapped to *)
(* the Check field of lib.rs it stands for (from_version: Version,         *)
(* from_git_revision: Revision, from_path: RustDoc, from_root: Root or the *)
(* current manifest).                                                      *)
(***************************************************************************)
BaselineOptions == {"baseline_version", "baseline_rev", "baseline_root", "baseline_rustdoc"}

CheckReleaseArgs ==
    { a \in [current_rustdoc : BOOLEAN, manifest_path : BOOLEAN, workspace : BOOLEAN,
             package : SUBSET RunNames, exclude : SUBSET RunNames,
             baseline : SUBSET BaselineOptions, version_valid : BOOLEAN] :
        "baseline_version" \notin a.baseline => a.version_valid }

\* clap_accepts with the baseline options in no group
clap_accepts_NoGroup(a) ==
    a.current_rustdoc => "baseline_rustdoc" \in a.baseline

clap_accepts(a) ==
    /\ Cardinality(a.baseline) <= 1
    /\ a.current_rustdoc => "baseline_rustdoc" \in a.baseline

\* Cargo::parse(): a rejected command line ends the process with a usage error
ParseArgs ==
    /\ pc = "new"
    /\ \E a \in CheckReleaseArgs :
          /\ args' = {a}
          /\ pc' = IF clap_accepts(a) THEN "parsed" ELSE "usage_error"
    /\ UNCHANGED <<scope, current, baseline, reselected, RunState>>

\* `args.into()`: the arguments are consumed into a Check
From ==
    /\ pc = "parsed"
    /\ \E a \in args :
          /\ current' = IF a.current_rustdoc THEN "RustDoc"
                        ELSE IF a.manifest_path THEN "Manifest" ELSE "CurrentDir"
          /\ scope' = IF a.workspace
                      THEN [selection |-> SelWorkspace, excluded_packages |-> a.exclude]
                      ELSE IF a.package # {}
                      THEN [selection |-> SelPackages(a.package), excluded_packages |-> {}]
                      ELSE ScopeDefault
          /\ baseline' = IF "baseline_version" \in a.baseline
                         THEN BaselineVersion(a.version_valid)
                         ELSE IF "baseline_rev" \in a.baseline THEN Baseline("Revision")
                         ELSE IF "baseline_rustdoc" \in a.baseline THEN Baseline("RustDoc")
                         ELSE Baseline("Root")
    /\ args' = {}
    /\ pc' = "cli"
    /\ UNCHANGED <<reselected, RunState>>

(***************************************************************************)
(* Check::check_release, step by step.  Every call that leaves the source  *)
(* file is logged with its outcome; after a failed call the `?` returns    *)
(* the error at once.                                                      *)
(***************************************************************************)
Config == <<scope, current, baseline, args, reselected>>

\* `?` on an Err: check_release returns it; evs are the calls made in this step
Abort(evs, e) ==
    /\ pc' = "returned"
    /\ result' = Err(e)
    /\ log' = log \o evs
    /\ UNCHANGED <<Config, metadata, selected, rustdoc_paths, success>>

\* Check::manifest_path
manifest_path(cur) == IF cur = "RustDoc" THEN "Err" ELSE "Ok"

NotSupported == "RustDoc is not supported with these arguments"

\* the loader is built: on to `match &self.current`
LoaderBuilt(evs) ==
    /\ pc' = "loader_built"
    /\ log' = log \o evs
    /\ UNCHANGED <<Config, metadata, selected, rustdoc_paths, success, result>>

\* GitBaseline::with_rev resolves and checks out the revision when it is built
with_rev(resolvable) == IF resolvable THEN "ok" ELSE "err"

\* Baseline::Version: registry_baseline(), then semver::Version::parse
LoaderVersion ==
    /\ Configured
    /\ baseline.kind = "Version"
    /\ IF manifest_path(current) = "Err" THEN Abort(<<>>, NotSupported)
       ELSE \/ Abort(<<Event("cargo_metadata_no_deps", "", "err")>>, "metadata")
            \/ Abort(<<Event("cargo_metadata_no_deps", "", "ok"),
                       Event("RegistryBaseline_new", "", "err")>>, "registry")
            \/ /\ ~baseline.valid
               /\ Abort(<<Event("cargo_metadata_no_deps", "", "ok"),
                          Event("RegistryBaseline_new", "", "ok")>>, "semver")
            \/ /\ baseline.valid
               /\ LoaderBuilt(<<Event("cargo_metadata_no_deps", "", "ok"),
                                Event("RegistryBaseline_new", "", "ok")>>)

\* LoaderRevision without the `?` after GitBaseline::with_rev
LoaderRevision_IgnoreFailure ==
    /\ Configured
    /\ baseline.kind = "Revision"
    /\ IF manifest_path(current) = "Err" THEN Abort(<<>>, NotSupported)
       ELSE \/ Abort(<<Event("cargo_metadata_no_deps", "", "err")>>, "metadata")
            \/ \E resolvable \in BOOLEAN :
                  LoaderBuilt(<<Event("cargo_metadata_no_deps", "", "ok"),
                                Event("GitBaseline_with_rev", "", with_rev(resolvable))>>)

\* Baseline::Revision: metadata without dependencies, then GitBaseline::with_rev
LoaderRevision ==
    /\ Configured
    /\ baseline.kind = "Revision"
    /\ IF manifest_path(current) = "Err" THEN Abort(<<>>, NotSupported)
       ELSE \/ \E resolvable \in BOOLEAN :
                  LET evs == <<Event("cargo_metadata_no_deps", "", "ok"),
                               Event("GitBaseline_with_rev", "", with_rev(resolvable))>>
                  IN  IF with_rev(resolvable) = "ok" THEN LoaderBuilt(evs)
                      ELSE Abort(evs, "git")
            \/ Abort(<<Event("cargo_metadata_no_deps", "", "err")>>, "metadata")

\* Baseline::Root: PathBaseline::new
LoaderRoot ==
    /\ Configured
    /\ baseline.kind = "Root"
    /\ \/ LoaderBuilt(<<Event("PathBaseline_new", "", "ok")>>)
       \/ Abort(<<Event("PathBaseline_new", "", "err")>>, "path")

\* Baseline::RustDoc: RustdocBaseline::new cannot fail
LoaderRustDoc ==
    /\ Configured
    /\ baseline.kind = "RustDoc"
    /\ LoaderBuilt(<<Event("RustdocBaseline_new", "", "ok")>>)

\* Baseline::LatestVersion: metadata without dependencies, then RegistryBaseline::new
LoaderLatestVersion ==
    /\ Configured
    /\ baseline.kind = "LatestVersion"
    /\ IF manifest_path(current) = "Err" THEN Abort(<<>>, NotSupported)
       ELSE \/ Abort(<<Event("cargo_metadata_no_deps", "", "err")>>, "metadata")
            \/ Abort(<<Event("cargo_metadata_no_deps", "", "ok"),
                       Event("RegistryBaseline_new", "", "err")>>, "registry")
            \/ LoaderBuilt(<<Event("cargo_metadata_no_deps", "", "ok"),
                             Event("RegistryBaseline_new", "", "ok")>>)

Unknown == "<unknown>"

\* Current::RustDoc: one pair, the baseline loaded for "<unknown>"
CurrentRustDoc ==
    /\ pc = "loader_built"
    /\ current = "RustDoc"
    /\ \/ Abort(<<Event("load_rustdoc", Unknown, "err")>>, "baseline")
       \/ /\ rustdoc_paths' = <<Unknown>>
          /\ success' = TRUE
          /\ log' = Append(log, Event("load_rustdoc", Unknown, "ok"))
          /\ pc' = "evaluate"
          /\ UNCHANGED <<Config, metadata, selected, result>>

\* Current::CurrentDir | Current::Manifest: manifest_metadata(), selected_packages
CurrentManifest ==
    /\ pc = "loader_built"
    /\ current \in {"CurrentDir", "Manifest"}
    /\ \/ Abort(<<Event("cargo_metadata", "", "err")>>, "metadata")
       \/ \E meta \in RunMetadata :
             /\ metadata' = {meta}
             /\ selected' = selected_packages(scope, meta)
             /\ rustdoc_paths' = <<>>
             /\ log' = Append(log, Event("cargo_metadata", "", "ok"))
             /\ pc' = "for_selected"
             /\ UNCHANGED <<Config, success, result>>

\* is_implied not looking at the selection mode
is_implied_AnySelection(sc) == TRUE

is_implied(sc) == sc.selection = SelWorkspace

Skipped(sc, p) == is_implied(sc) /\ p.publish_empty

\* `continue` for a non-publishable package of an implied selection
SkipPackage ==
    /\ pc = "for_selected"
    /\ selected # <<>>
    /\ Skipped(scope, Head(selected))
    /\ \/ Abort(<<Event("Skipping", Head(selected).name, "err")>>, "shell")
       \/ /\ selected' = Tail(selected)
          /\ log' = Append(log, Event("Skipping", Head(selected).name, "ok"))
          /\ UNCHANGED <<Config, pc, metadata, rustdoc_paths, success, result>>

\* the "Parsing" status line and rustdoc_cmd.dump of the current package
DumpCurrent ==
    /\ pc = "for_selected"
    /\ selected # <<>>
    /\ ~Skipped(scope, Head(selected))
    /\ LET name == Head(selected).name
       IN  \/ Abort(<<Event("Parsing", name, "err")>>, "shell")
           \/ Abort(<<Event("Parsing", name, "ok"), Event("dump", name, "err")>>, "dump")
           \/ /\ log' = log \o <<Event("Parsing", name, "ok"), Event("dump", name, "ok")>>
              /\ pc' = "load_baseline"
              /\ UNCHANGED <<Config, metadata, selected, rustdoc_paths, success, result>>

\* loader.load_rustdoc for the package just dumped, and the push
LoadBaseline ==
    /\ pc = "load_baseline"
    /\ LET name == Head(selected).name
       IN  \/ Abort(<<Event("load_rustdoc", name, "err")>>, "baseline")
           \/ /\ rustdoc_paths' = Append(rustdoc_paths, name)
              /\ selected' = Tail(selected)
              /\ log' = Append(log, Event("load_rustdoc", name, "ok"))
              /\ pc' = "for_selected"
              /\ UNCHANGED <<Config, metadata, success, result>>

\* the loop over the selected packages is over: `let mut success = true`
EndSelected ==
    /\ pc = "for_selected"
    /\ selected = <<>>
    /\ success' = TRUE
    /\ pc' = "evaluate"
    /\ UNCHANGED <<Config, metadata, selected, rustdoc_paths, result, log>>

\* fold_success as `success = verdict`
fold_success_LastVerdict(s, verdict) == verdict

\* `if !run_check_release(..)? { success = false; }`
fold_success(s, verdict) == IF ~verdict THEN FALSE ELSE s

\* EvalPackage counting an Err of run_check_release as a failed verdict
EvalPackage_ErrorAsFailure ==
    /\ pc = "evaluate"
    /\ rustdoc_paths # <<>>
    /\ LET name == Head(rustdoc_paths)
           parsed == <<Event("parse_baseline", name, "ok"), Event("parse_current", name, "ok")>>
       IN  \/ Abort(<<Event("parse_baseline", name, "err")>>, "parse")
           \/ Abort(<<Event("parse_baseline", name, "ok"),
                      Event("parse_current", name, "err")>>, "parse")
           \/ \E outcome \in {"pass", "fail", "err"} :
                 /\ success' = fold_success(success, outcome = "pass")
                 /\ rustdoc_paths' = Tail(rustdoc_paths)
                 /\ log' = Append(log \o parsed, Event("run_check_release", name, outcome))
                 /\ UNCHANGED <<Config, pc, metadata, selected, result>>

\* EvalPackage taking the pairs from the back of rustdoc_paths
EvalPackage_LastFirst ==
    /\ pc = "evaluate"
    /\ rustdoc_paths # <<>>
    /\ LET name == rustdoc_paths[Len(rustdoc_paths)]
           parsed == <<Event("parse_baseline", name, "ok"), Event("parse_current", name, "ok")>>
       IN  \/ Abort(<<Event("parse_baseline", name, "err")>>, "parse")
           \/ Abort(<<Event("parse_baseline", name, "ok"),
                      Event("parse_current", name, "err")>>, "parse")
           \/ Abort(Append(parsed, Event("run_check_release", name, "err")), "query")
           \/ \E verdict \in BOOLEAN :
                 /\ success' = fold_success(success, verdict)
                 /\ rustdoc_paths' = SubSeq(rustdoc_paths, 1, Len(rustdoc_paths) - 1)
                 /\ log' = Append(log \o parsed,
                              Event("run_check_release", name,
                                    IF verdict THEN "pass" ELSE "fail"))
                 /\ UNCHANGED <<Config, pc, metadata, selected, result>>

\* EvalPackage leaving the loop at the first failed verdict
EvalPackage_StopAtFailure ==
    /\ pc = "evaluate"
    /\ rustdoc_paths # <<>>
    /\ LET name == Head(rustdoc_paths)
           parsed == <<Event("parse_baseline", name, "ok"), Event("parse_current", name, "ok")>>
       IN  \/ Abort(<<Event("parse_baseline", name, "err")>>, "parse")
           \/ Abort(<<Event("parse_baseline", name, "ok"),
                      Event("parse_current", name, "err")>>, "parse")
           \/ Abort(Append(parsed, Event("run_check_release", name, "err")), "query")
           \/ \E verdict \in BOOLEAN :
                 /\ success' = fold_success(success, verdict)
                 /\ rustdoc_paths' = IF verdict THEN Tail(rustdoc_paths) ELSE <<>>
                 /\ log' = Append(log \o parsed,
                              Event("run_check_release", name,
                                    IF verdict THEN "pass" ELSE "fail"))
                 /\ UNCHANGED <<Config, pc, metadata, selected, result>>

\* one turn of the loop over rustdoc_paths
EvalPackage ==
    /\ pc = "evaluate"
    /\ rustdoc_paths # <<>>
    /\ LET name == Head(rustdoc_paths)
           parsed == <<Event("parse_baseline", name, "ok"), Event("parse_current", name, "ok")>>
       IN  \/ Abort(<<Event("parse_baseline", name, "err")>>, "parse")
           \/ Abort(<<Event("parse_baseline", name, "ok"),
                      Event("parse_current", name, "err")>>, "parse")
           \/ Abort(Append(parsed, Event("run_check_release", name, "err")), "query")
           \/ \E verdict \in BOOLEAN :
                 /\ success' = fold_success(success, verdict)
                 /\ rustdoc_paths' = Tail(rustdoc_paths)
                 /\ log' = Append(log \o parsed,
                              Event("run_check_release", name,
                                    IF verdict THEN "pass" ELSE "fail"))
                 /\ UNCHANGED <<Config, pc, metadata, selected, result>>

\* `Ok(Report { success })`
Return ==
    /\ pc = "evaluate"
    /\ rustdoc_paths = <<>>
    /\ result' = OkReport(success)
    /\ pc' = "returned"
    /\ UNCHANGED <<Config, metadata, selected, rustdoc_paths, success, log>>

Next ==
    \/ with_manifest
    \/ with_workspace
    \/ with_packages
    \/ with_excluded_packages
    \/ with_current_rustdoc
    \/ with_baseline_version
    \/ with_baseline_revision
    \/ with_baseline_root
    \/ with_baseline_rustdoc
    \/ ParseArgs
    \/ From
    \/ LoaderVersion
    \/ LoaderRevision
    \/ LoaderRoot
    \/ LoaderRustDoc
    \/ LoaderLatestVersion
    \/ CurrentRustDoc
    \/ CurrentManifest
    \/ SkipPackage
    \/ DumpCurrent
    \/ LoadBaseline
    \/ EndSelected
    \/ EvalPackage
    \/ Return

Spec == Init /\ [][Next]_vars


(***************************************************************************)
(* Properties of Scope::selected_packages (checked under SpecScope).       *)
(***************************************************************************)
TheMetadata == CHOOSE m \in metadata : TRUE
SelectedSet == { selected[k] : k \in DOMAIN selected }
Returned == pc = "scope_return"

\* C1: whatever the selection mode, the package graph and the exclusion list,
\* no package returned by selected_packages has a name in excluded_packages,
\* also when that name was requested explicitly or names the default root.
C1_ExcludedNeverSelected ==
    Returned => \A k \in DOMAIN selected : selected[k].name \notin scope.excluded_packages

\* an excluded name that was also requested explicitly and names a workspace
\* member, next to another package that is returned
C1_Witness ==
    /\ Returned
    /\ scope.selection.kind = "Packages"
    /\ selected # <<>>
    /\ \E p \in PackagesOf(TheMetadata) :
          /\ p.id \in TheMetadata.workspace_members
          /\ p.name \in scope.selection.patterns
          /\ p.name \in scope.excluded_packages

\* C2: in Packages mode the result is exactly the workspace members whose name
\* is requested and not excluded, each once and in graph order; requested names
\* of non-members (dependencies of the graph, or no package at all) are left out
\* and the call still returns.
C2_ExplicitOnlyMembers ==
    (Returned /\ scope.selection.kind = "Packages") =>
        /\ SelectedSet = { p \in PackagesOf(TheMetadata) :
                             /\ p.id \in TheMetadata.workspace_members
                             /\ p.name \in scope.selection.patterns
                             /\ p.name \notin scope.excluded_packages }
        /\ Cardinality(SelectedSet) = Len(selected)
        /\ \A k \in DOMAIN selected : \A l \in DOMAIN selected :
              k < l => selected[k].id < selected[l].id

\* requested: a member, a dependency that is no member, and a name of no package
C2_Witness ==
    /\ Returned
    /\ scope.selection.kind = "Packages"
    /\ scope.excluded_packages = {}
    /\ Len(selected) = 1
    /\ \E p \in PackagesOf(TheMetadata) :
          /\ p.id \notin TheMetadata.workspace_members
          /\ p.name \in scope.selection.patterns
          /\ \A q \in SelectedSet : q.name # p.name
    /\ \E n \in scope.selection.patterns :
          \A p \in PackagesOf(TheMetadata) : p.name # n

\* C9: in DefaultMembers mode the packages selected before the exclusions are
\* the resolved root alone when the resolution has one, and all workspace
\* members when it has none; the result is those minus the excluded names.
C9_DefaultMembersRootOrWorkspace ==
    (Returned /\ scope.selection.kind = "DefaultMembers") =>
        LET before == IF TheMetadata.resolve_root # {}
                      THEN { p \in PackagesOf(TheMetadata) : p.id \in TheMetadata.resolve_root }
                      ELSE { p \in PackagesOf(TheMetadata) :
                               p.id \in TheMetadata.workspace_members }
        IN  /\ SelectedSet = { p \in before : p.name \notin scope.excluded_packages }
            /\ TheMetadata.resolve_root # {} => Cardinality(before) = 1
            /\ scope.excluded_packages = {} => Len(selected) = Cardinality(before)

\* no root: the fallback returns both members and leaves the dependency out
C9_Witness ==
    /\ Returned
    /\ scope.selection.kind = "DefaultMembers"
    /\ TheMetadata.resolve_root = {}
    /\ Cardinality(TheMetadata.workspace_members) = 2
    /\ Len(TheMetadata.packages) = 3
    /\ Len(selected) = 2

(***************************************************************************)
(* Properties of the builder, the command line and check_release (checked  *)
(* under Spec).                                                            *)
(***************************************************************************)
Running == pc \in {"loader_built", "for_selected", "load_baseline", "evaluate", "returned"}
ReturnedOk == pc = "returned" /\ result.kind = "Ok"
ReturnedErr == pc = "returned" /\ result.kind = "Err"

NamesOf(evs) == [k \in DOMAIN evs |-> evs[k].pkg]
IsPrefix(s, t) == Len(s) <= Len(t) /\ \A k \in DOMAIN s : s[k] = t[k]
LogOf(kinds) == LET wanted(e) == e.ev \in kinds IN SelectSeq(log, wanted)
LogOk(kind) == LET wanted(e) == e.ev = kind /\ e.res = "ok" IN SelectSeq(log, wanted)
Failed == { k \in DOMAIN log : log[k].res = "err" }
Verdicts == LogOf({"run_check_release"})
LoadedPackage(name) == CHOOSE p \in PackagesOf(TheMetadata) : p.name = name
SelectedNames ==
    IF metadata = {} THEN <<>>
    ELSE LET sel == selected_packages(scope, TheMetadata)
         IN  [k \in DOMAIN sel |-> sel[k].name]

\* C3: a Report returned by check_release has success = the conjunction of the
\* verdicts run_check_release gave, one for every prepared snapshot pair, and
\* success = TRUE when no pair was prepared.
C3_SuccessIsConjunction ==
    ReturnedOk =>
        /\ result.success = (\A k \in DOMAIN Verdicts : Verdicts[k].res = "pass")
        /\ NamesOf(Verdicts) = NamesOf(LogOk("load_rustdoc"))
        /\ Verdicts = <<>> => result.success

\* every selected package was skipped: nothing evaluated, success is TRUE
C3_Witness ==
    /\ ReturnedOk
    /\ result.success
    /\ Verdicts = <<>>
    /\ LogOk("Skipping") # <<>>

\* C4: as soon as one call of check_release fails, the run has returned that
\* error: nothing further is done and no Report exists, whatever passed before.
C4_FailureAborts ==
    /\ Failed # {} => /\ ReturnedErr
                      /\ Failed = {Len(log)}
    /\ ReturnedOk => Failed = {}

\* the second package's rule evaluation fails after the first one passed
C4_Witness ==
    /\ ReturnedErr
    /\ result.error = "query"
    /\ \E k \in DOMAIN Verdicts : Verdicts[k].res = "pass"

\* C5 as stated: the baseline variants are mutually exclusive, and selecting
\* more than one of them for a run (two different with_baseline_* calls, or two
\* baseline options on the command line) is an error raised before any fetch.
C5_Claim ==
    (reselected \/ \E a \in args : Cardinality(a.baseline) > 1) =>
        /\ log = <<>>
        /\ Running => ReturnedErr

\* C5 amended: on the command line the four baseline options form one argument
\* group, so a command line with more than one of them is rejected at parsing,
\* before a Check is built and before any fetch; a with_baseline_* call after
\* another one raises no error and leaves exactly its own variant selected.
C5_CommandLineGroupExclusive ==
    /\ \A a \in args : Cardinality(a.baseline) > 1 =>
          /\ pc = "usage_error"
          /\ log = <<>>
          /\ result = NoResult
          /\ baseline = Baseline("LatestVersion")
    /\ (reselected /\ Building) => (result = NoResult /\ baseline.kind # "LatestVersion")

\* --baseline-version together with --baseline-rev was rejected
C5_Witness ==
    /\ pc = "usage_error"
    /\ \E a \in args : a.baseline = {"baseline_version", "baseline_rev"}

\* C6 as stated: with a prebuilt current snapshot and any baseline that is not
\* a prebuilt snapshot, check_release returns the configuration error before it
\* loads metadata, builds or asks a baseline loader, or generates a snapshot.
C6_Claim ==
    (Running /\ current = "RustDoc" /\ baseline.kind # "RustDoc") =>
        /\ result = Err(NotSupported)
        /\ log = <<>>

\* C7: when GitBaseline::with_rev fails for the revision, check_release has
\* returned an error and run_check_release was not called in that run.
C7_UnresolvedRevisionAborts ==
    (\E k \in DOMAIN log : log[k] = Event("GitBaseline_with_rev", "", "err")) =>
        /\ ReturnedErr
        /\ Verdicts = <<>>
        /\ LogOf({"dump", "load_rustdoc", "parse_baseline", "parse_current"}) = <<>>

\* the revision could not be resolved
C7_Witness ==
    /\ baseline.kind = "Revision"
    /\ ReturnedErr
    /\ log # <<>>
    /\ log[Len(log)] = Event("GitBaseline_with_rev", "", "err")

\* C8: a package is skipped only in Workspace mode and only when it is
\* non-publishable; nothing else is ever done for a skipped package; the skip
\* itself does not end the run in an error; a non-publishable package is never
\* dumped in Workspace mode, and in Packages mode every selected package is
\* processed.
C8_SkipNonPublishable ==
    /\ \A k \in DOMAIN log : log[k].ev = "Skipping" =>
          /\ scope.selection.kind = "Workspace"
          /\ LoadedPackage(log[k].pkg).publish_empty
          /\ \A j \in DOMAIN log : log[j].pkg = log[k].pkg => j = k
    /\ \A k \in DOMAIN log :
          (log[k].ev \in {"Parsing", "dump"} /\ scope.selection.kind = "Workspace") =>
              ~LoadedPackage(log[k].pkg).publish_empty
    /\ (log # <<>> /\ log[Len(log)].ev = "Skipping" /\ log[Len(log)].res = "ok") =>
          result.kind # "Err"
    /\ (scope.selection.kind = "Packages" /\ metadata # {} /\ pc = "evaluate") =>
          NamesOf(LogOf({"dump"})) = SelectedNames

\* a workspace run that skipped one member, evaluated another and returned
C8_Witness ==
    /\ ReturnedOk
    /\ scope.selection.kind = "Workspace"
    /\ LogOk("Skipping") # <<>>
    /\ Verdicts # <<>>

\* C10: the packages are taken up (skipped or dumped) in the order of
\* selected_packages, their rules are evaluated in the order in which their
\* snapshot pairs were prepared, which is that same order, and the baseline of
\* a package is asked of the loader right after that package's dump succeeded.
C10_ProcessingOrder ==
    /\ IsPrefix(NamesOf(LogOf({"Skipping", "Parsing"})), SelectedNames)
    /\ IsPrefix(NamesOf(LogOf({"dump"})), NamesOf(LogOk("Parsing")))
    /\ IsPrefix(NamesOf(Verdicts), NamesOf(LogOk("load_rustdoc")))
    /\ IsPrefix(NamesOf(LogOf({"parse_baseline"})), NamesOf(LogOk("load_rustdoc")))
    /\ current # "RustDoc" =>
          /\ IsPrefix(NamesOf(LogOf({"load_rustdoc"})), NamesOf(LogOk("dump")))
          /\ \A k \in DOMAIN log : log[k].ev = "load_rustdoc" =>
                k > 1 /\ log[k - 1] = Event("dump", log[k].pkg, "ok")

\* two packages dumped, loaded and evaluated, each in selection order
C10_Witness ==
    /\ ReturnedOk
    /\ Len(SelectedNames) = 2
    /\ NamesOf(Verdicts) = SelectedNames
    /\ NamesOf(LogOk("dump")) = SelectedNames

\* C11: the evaluation loop does not stop at a failed verdict: while no call
\* has failed, the verdicts given so far followed by the pairs still waiting are
\* exactly the prepared pairs, each once, so a returned Report has one verdict
\* per prepared pair; and success is FALSE exactly when some verdict so far was
\* a failure, so a later passing package never sets it back to TRUE.
C11_EvaluatesAllAndKeepsFailure ==
    /\ (pc = "evaluate" \/ ReturnedOk) =>
          NamesOf(Verdicts) \o rustdoc_paths = NamesOf(LogOk("load_rustdoc"))
    /\ ReturnedOk => rustdoc_paths = <<>>
    /\ success = (\A k \in DOMAIN Verdicts : Verdicts[k].res # "fail")

\* the first package failed, the second was still evaluated and passed, and
\* the Report says failure
C11_Witness ==
    /\ ReturnedOk
    /\ Len(Verdicts) = 2
    /\ Verdicts[1].res = "fail"
    /\ Verdicts[2].res = "pass"
    /\ ~result.success

====
